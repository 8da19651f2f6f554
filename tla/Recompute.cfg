SPECIFICATION Spec
CONSTANTS
  None = None
  WindowSecs = 2
  Increments <- MCIncrements
  MaxTime = 6
  MaxWh = 1
  MaxVersion = 2
  Disturbances = {"build"}
  Absences <- MCComplete
  Orphans <- MCNewOrOrphan
  FollowedFaults = {"orphan", "close", "recompute"}
  MaxFaults = 2
CONSTRAINT FewFaults
INVARIANTS
  NothingLost
  NothingLeftToRecompute
  RepairFillsTheHole
PROPERTIES
  HistoryAppendOnly
  ImplementsLedger
