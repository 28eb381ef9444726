CONSTANTS
  p1 = p1
  p2 = p2
  c1 = c1
  c2 = c2
  None = None
  Publishers <- MCPublishers
  Clients <- OneClient
  Cap = 2
  SeqMod = 4
SPECIFICATION Spec
INVARIANT
  NoUnreportedGap
