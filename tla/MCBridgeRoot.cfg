SPECIFICATION Spec
CONSTANTS
  Configs <- MCConfigs
  Prior <- MCPrior
  Enabled <- MCEnabled
  MaxCleanups = 2
INVARIANTS Recoverable RulesBalanced ItemsOwned
CHECK_DEADLOCK FALSE
