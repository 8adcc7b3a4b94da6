SPECIFICATION MCSpec
CONSTANTS
  NumBits = 6
  GroupBits = 3
  MaxDepth = 4
  MaxSize = 16
  MaxUses = 2
  MaxCalls = 3
  MaxFaults = 2
  Values <- MCValues
  Messages <- MCMessages
  Clients <- MCClients
  Keys = {"k"}
INVARIANT CopyOfReadsIsJSON
CHECK_DEADLOCK FALSE
