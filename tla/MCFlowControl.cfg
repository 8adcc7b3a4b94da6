SPECIFICATION MCSpec
CONSTANTS
  Requests = {r1, r2, r3}
  Goroutines <- Two
  NoGoroutine = NoGoroutine
  SampleCount = 2
  BucketLength = 1
  SecondLength = 2
  Values = {1}
  MaxRt = 2
  WindowStart = 2
  WindowEnd = 5
  MaxEvents = 1
  MaxReaders = 1
  HotRequests <- Two
  HotBatches = {1}
  Args = {"a", "b"}
  Thresholds <- MCThresholds
  BurstCount = 0
  Duration = 2
  MaxQueueing = 2
  Capacity = 1
  Cells = {1, 2, 3, 4, 5, 6}
  Batches = {1, 2}
  Threshold = 2
  StatInterval = 3
  MaxQueueingTime = 2
  Start = 4
  MaxTime = 6
  MaxPasses = 3
  MaxClock = 4
  MaxCalls = 3
INVARIANTS SpacedUnlessSlip RateHeld ConcurrencyHeld StatisticsExact ColdSearchFinds
PROPERTIES CallsEnd WarmsUp
CHECK_DEADLOCK FALSE
