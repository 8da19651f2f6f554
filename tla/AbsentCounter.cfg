SPECIFICATION Spec
CONSTANTS
  None = None
  WindowSecs = 2
  Increments <- MCIncrements
  MaxTime = 6
  MaxWh = 2
  MaxVersion = 1
  Disturbances = {}
  Absences <- MCImportAbsent
  Orphans <- MCNew
  FollowedFaults = {"reading"}
  MaxFaults = 1
CONSTRAINT FewFaults
INVARIANTS
  RowsAddUp
