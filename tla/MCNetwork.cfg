CONSTANTS
  Plans <- MCPlans
  MaxLinkSubnetId = 5
  MaxHostIndex = 3
SPECIFICATION NetSpec
INVARIANTS MeshSound RoutesLead CachesServe LinkEventsExact PathsOptimal
CHECK_DEADLOCK FALSE
