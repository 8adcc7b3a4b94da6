SPECIFICATION FairSpec
CONSTANTS
  Sides = {"pub"}
  Events = {e1, e2}
  NoEvent = NoEvent
  Pods = {p1}
  SingleRetryNum = 1
  MayRefuse = FALSE
  MaxTime = 2
  MaxPublished = 1
  MaxCrashes = 0
  StatusWorks = FALSE
PROPERTIES FailedPushRetried
