SPECIFICATION Spec
CONSTANTS
  topic = topic
  consume = consume
  Singles = {manager}
  Listens <- MCListens
  Routes <- MCRoutes
  MaxPanics = 0
INVARIANTS EventsRouted
CHECK_DEADLOCK FALSE
