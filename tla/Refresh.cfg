SPECIFICATION Spec
CONSTANTS
  Nothing = Nothing
  Open = Open
  Hour = 2
  HoursPerDay = 2
  Sources = {1}
  Revisions <- MCFewRevisions
  Posts = {p}
  RefreshSecs = 1
  MaxClock = 4
  MaxEditions = 3
  MaxRows = 3
  Distrust = TRUE
  Instants <- MCNoInstants
  Zones <- MCUtc
  FollowedFaults = {"overlap", "insert"}
CONSTRAINT FewFaults
INVARIANTS
  TypeOK
  LatestAnswerWinsAlone
  FreshEnough
