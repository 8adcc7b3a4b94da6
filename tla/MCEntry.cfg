SPECIFICATION MCSpec
CONSTANTS
  Requests = {r1, r2}
  Rules <- MCRules
  RetryTimeout = 2
  MaxCount = 2
  MaxProbe = 2
  Entries <- MCEntries
  Contexts <- MCContexts
  IsolationThreshold = 1
  SystemThreshold = 2
  ProbeNums = {0, 2}
  Outbound <- MCOutbound
  MaxPanics = 1
  MaxTraces = 1
INVARIANTS OneProbe GaugeExact IsolationHolds ContextOwned
PROPERTIES NoEarlyProbe ImplementsStates ProbeComesBack
CHECK_DEADLOCK FALSE
