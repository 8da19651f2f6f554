SPECIFICATION Spec
CONSTANTS
  None = None
  WindowSecs = 2
  Increments <- MCIncrements
  MaxTime = 5
  MaxWh = 2
  MaxVersion = 1
  Disturbances = {"clock", "meter"}
  Absences <- MCComplete
  Orphans <- MCNew
  FollowedFaults = {"write", "close", "mark", "meter"}
  MaxFaults = 2
CONSTRAINT FewFaults
INVARIANTS
  TypeOK
  OrderedLedger
  ContiguousLedger
  MarkerNamesLatestRow
  NoEnergyInvented
