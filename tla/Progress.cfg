SPECIFICATION FairSpec
CONSTANTS
  None = None
  WindowSecs = 2
  Increments <- MCIncrements
  MaxTime = 5
  MaxWh = 1
  MaxVersion = 2
  Disturbances = {"build"}
  Absences <- MCImportAbsent
  Orphans <- MCNew
  FollowedFaults = {"anchor","write","mark","close","recompute","reading"}
  MaxFaults = 1
CONSTRAINT FewFaults
INVARIANTS
  RowsAndSnapshotsAgree
PROPERTIES
  StartupEnds
  CrossingMovesAnchor
