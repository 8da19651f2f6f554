SPECIFICATION Spec
CONSTANTS
  None = None
  WindowSecs = 2
  Increments <- MCIncrements
  MaxTime = 6
  MaxWh = 2
  MaxVersion = 1
  Disturbances = {}
  Absences <- MCComplete
  Orphans <- MCNew
  FollowedFaults = {"anchor"}
  MaxFaults = 2
CONSTRAINT FewFaults
INVARIANTS
  RowsAddUp
