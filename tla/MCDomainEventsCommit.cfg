SPECIFICATION Spec
CONSTANTS
  Sides = {"pub"}
  Events = {e1, e2}
  NoEvent = NoEvent
  Pods = {p1}
  SingleRetryNum = 2
  StatusWorks = FALSE
  MayRefuse = TRUE
  MaxTime = 2
  MaxPublished = 1
  MaxCrashes = 0
INVARIANTS PublishedOnlyCommitted
