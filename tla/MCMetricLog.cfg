SPECIFICATION Spec
CONSTANTS
  Resources = {"a", "b"}
  SecsPerDay = 2
  Window = 3
  MaxSingleSize = 2
  MaxFileAmount = 2
  MaxSec = 3
  Traffic <- MCTraffic
  Queries <- MCQueries
  MaxCrashes = 1
  MaxFaults = 1
  MaxSearches = 2
INVARIANTS WarmSearchFinds
CHECK_DEADLOCK FALSE
