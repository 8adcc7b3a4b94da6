SPECIFICATION MCSpec
CONSTANTS
  Callers = {p1, p2}
  Conns = {c1, c2, c3, c4}
  NoConn = NoConn
  MaxConn = 1
  MaxReleases = 1
  Stoppers = {s1}
  Links = {1, 2}
  MaxCalls = 2
  MaxFailures = 1
  StopTimeout = TRUE
INVARIANTS OneOwner CountExact NothingAfterStop AcceptedIsServed
PROPERTIES StoppedPoolDrains DoReturns StopReturns
CHECK_DEADLOCK FALSE
