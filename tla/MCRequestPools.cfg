SPECIFICATION MCSpec
CONSTANTS
  Workers = {w1, w2}
  NoWorker = NoWorker
  Services = {s1, s2}
  Coms = {c1}
  NoObject = NoObject
  Sides = {"pub", "sub"}
  Events = {e1, e2}
  NoEvent = NoEvent
  Pods = {p1, p2}
  SingleRetryNum = 1
  StatusWorks = TRUE
  MayRefuse = TRUE
  MaxTime = 2
  MaxPublished = 1
  MaxCrashes = 1
SYMMETRY Symmetry
INVARIANTS HandlerOwnsObjects DeferredObjectsStay RolledBackNeverPublished CommittedNotLost PushAndRetryDisjoint
