SPECIFICATION ReadersSpec
CONSTANTS
  None = None
  LastWindow = 2
  MaxBuild = 3
  Ranges <- MCRanges
  MaxRuns = 1
  PageSize = 1
  RowLimit = 2
PROPERTIES
  VersionsRise
  RawRepairsLast
  TypedRunLeavesNothingStale
  WalkDelivers
  EstimateAccounts
