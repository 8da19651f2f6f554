SPECIFICATION Spec
CONSTANTS
  None = None
  Missing = Missing
  Months = 2
  HoursPerDay = 2
  IndexRange = 16
  Labels = {1, 2, 3, 4}
  Items <- MCItems
  Upstreams <- MCUpstreams
  PageSize = 2
  MaxChanges = 2
INVARIANTS
  RequestsBounded
  BracketsFollowRates
  PricedByPeriod
PROPERTIES
  QuietFetchIsExact
  PublishingSkipsNothing
  LastCopyReadLast
