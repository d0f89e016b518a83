SPECIFICATION Spec
CONSTANTS
  HostCount = 2
  CacheNodes <- FirstHost
  Policy = "raise"
  Runs = 2
 
PROPERTIES ForeignIntact
CHECK_DEADLOCK FALSE
