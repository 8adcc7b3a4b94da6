SPECIFICATION FairSpec
CONSTANTS
  r1 = r1
  r2 = r2
  k1 = k1
  Loaders = {l1, l2}
  Nobody = Nobody
  Kinds = {"flow", "breaker", "hotspot", "isolation"}
  All = All
  Nil = Nil
  Nop = Nop
  Node = Node
  Names = {1, 2, 3, 4, 5, 6, 7, 8, 9, 10}
  Resources <- MCResources
  Rules <- MCRules
  Loads <- MCLoads
  ResourceLoads <- MCResourceLoads
  Additions <- MCAdditions
  MaxRules = 4
INVARIANTS RulesInForce OwnStatistics
PROPERTIES StatisticsCarried LoadsReturn
