CONSTANTS
  w1 = w1
  h1 = h1
  a = a
  b = b
  v1 = v1
  v2 = v2
  v3 = v3
  None = None
  Writers <- OneWriter
  Readers <- OneReader
  Svs <- MCSvs
  Surveys <- MCSurveys
  Views <- ThreeViews
SPECIFICATION Spec
SYMMETRY ViewSymmetry
INVARIANTS
  TypeOK
  FlagsOfLatestPosition
  OneSurvey
  PublishedExact
