SPECIFICATION FairSpec
CONSTANTS
  Script <- MCScript
  StartupGrace = 1
INVARIANTS RecordsSound StartsOrdered
PROPERTIES ShutdownCompletes
CHECK_DEADLOCK FALSE
