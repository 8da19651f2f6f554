SPECIFICATION Spec
CONSTANTS
  Nothing = Nothing
  Open = Open
  Hour = 2
  HoursPerDay = 2
  Sources = {1, 2, 3}
  Revisions <- MCRevisions
  Posts = {}
  RefreshSecs = 1
  MaxClock = 0
  MaxEditions = 3
  MaxRows = 3
  Distrust = FALSE
  Instants <- MCInstants
  Zones <- MCZones
  FollowedFaults = {}
CONSTRAINT FewFaults
INVARIANTS
  CoverageIsEnough
  IntervalsTellTheTariff
  EndpointsAgree
  ListedSchedulesHold
