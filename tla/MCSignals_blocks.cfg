CONSTANTS
  Systems <- AllSystems
  BlockTypes <- SomeBlocks
  TrackTypes <- SomeTracks
  SNRs <- TwoSNRs
  MaxBlocks = 3
SPECIFICATION Spec
INVARIANTS
  TypeOK
  ColumnsMakeSense
  OneEntryPerSignal
  StrongestKept
  InDisplayOrder
CHECK_DEADLOCK FALSE
