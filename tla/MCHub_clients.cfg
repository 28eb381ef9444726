CONSTANTS
  p1 = p1
  p2 = p2
  c1 = c1
  c2 = c2
  None = None
  Publishers <- MCPublishers
  Clients <- MCClients
  Cap = 2
  SeqMod = 1
SPECIFICATION FairSpec
INVARIANTS
  TypeOK
  NoPanic
PROPERTIES
  ImplementsMailboxes
  PublishReturns
  UnsubscribeReturns
