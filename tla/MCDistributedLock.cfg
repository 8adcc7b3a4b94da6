SPECIFICATION MCSpec
CONSTANTS
  Clients = {c1, c2, c3}
  Free = Free
  MaxMissed = 1
  MaxErrors = 1
  Requests = {r1, r2}
  Flights = {f1, f2, f3}
  None = None
  Messages = {m1, m2}
  Expiration = 2
  MaxUpdates = 2
  MaxTimeouts = 1
  MaxLog = 3
  MaxRestarts = 2
  Singles = {manager, engine}
  MaxPanics = 1
  Listens <- MCListens
  Routes <- MCRoutes
  topic = topic
  consume = consume
  query = query
INVARIANTS MutualExclusion ReadsShared ServedFromBooted
PROPERTIES StaleExpires TakenIsTried
CHECK_DEADLOCK FALSE
