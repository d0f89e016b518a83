SPECIFICATION FairSpec
CONSTANTS
  Apps <- MCApps
  Hosts <- MCHosts
  HostOf <- MCHostOf
  BaseLog <- MCBaseLog
  MaxRestarts = 2
INVARIANTS Ownership NoTruncation
PROPERTIES ContractHolds ShutdownCompletes
CHECK_DEADLOCK FALSE
