SPECIFICATION EdgesSpec
CONSTANTS
  MaxRow = 3
  MaxBatch = 2
  MaxDrops = 2
  MaxFaults = 1
  MaxCrashes = 2
  Torn = Torn
CHECK_DEADLOCK FALSE
INVARIANTS
  RowsKeepTheirPlace
  SurfaceIsSound
  ScreenTellsTruth
PROPERTIES
  StableLogKept
  WaitsEnd
