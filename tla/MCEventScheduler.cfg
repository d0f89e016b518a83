SPECIFICATION FairSpec
CONSTANTS
  EventList <- MCEvents
  Batches <- MCBatches
  Horizon = 7
INVARIANTS Bookkeeping
PROPERTIES FiringOrder Progress
CHECK_DEADLOCK FALSE
