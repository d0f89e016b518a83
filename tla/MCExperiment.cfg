SPECIFICATION FairSpec
CONSTANTS
  Puts = {p}
  Gets = {g}
  Contents = {c}
  Plain = {r}
  Configs <- MCConfigs
  MaxInterrupts = 1
  MaxProbes = 1
  MaxFlaps = 2
  p = p
  g = g
  c = c
  r = r
INVARIANTS RunSound
PROPERTIES NoLateRecord ExperimentEnds
CHECK_DEADLOCK FALSE
