SPECIFICATION Spec
CONSTANTS
  Nothing = Nothing
  WindowSecs = 2
  MaxTime = 4
  MaxPolls = 3
  Serials = {s1, s2}
  Channels = {c1}
  DaySecs = 1
  RetentionDays = 2
  PhaseRetentionDays = 1
  FollowedFaults = {"clock", "sample", "anchor", "close", "delete"}
  MaxFaults = 1
SYMMETRY Names
CONSTRAINTS
  FewFaults
  MoreToRecord
INVARIANTS
  TypeOK
  AveragesTellTheirWindow
  AccumulatorStaysInWindow
  OneRowPerInverter
  ArraysWhole
  RetentionKeepsItsPeriods
