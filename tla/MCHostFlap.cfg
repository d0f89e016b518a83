SPECIFICATION Spec
CONSTANTS
  Setups <- MCSetups
  MaxTimers = 3
INVARIANTS RoundsOwned LinksFollow
PROPERTIES DownEnds
CHECK_DEADLOCK FALSE
