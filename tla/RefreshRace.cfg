SPECIFICATION Spec
CONSTANTS
  Nothing = Nothing
  Open = Open
  Hour = 2
  HoursPerDay = 2
  Sources = {1}
  Revisions <- MCFewRevisions
  Posts = {p}
  RefreshSecs = 1
  MaxClock = 1
  MaxEditions = 2
  MaxRows = 2
  Distrust = FALSE
  Instants <- MCNoInstants
  Zones <- MCUtc
  FollowedFaults = {"overlap"}
CONSTRAINT FewFaults
INVARIANTS
  LatestAnswerWins
